---- MODULE Spec2Model ----
(***************************************************************************)
(* A model of log_analyzer/log.py: the LogItem record, the stage           *)
(* aggregator (_analyze_stage_log, _print_stage_log), the Log container    *)
(* (add_comm_log, analyze, analyze_time, dump, load) and the Workload      *)
(* container (append, extend, dump, load).                                 *)
(*                                                                         *)
(* Conventions.  A Python value that may be None is a sequence of length   *)
(* at most one: None is << >> and a present value v is << v >>.  A Python  *)
(* list is a sequence; Python's 0-based (and negative) indices are kept    *)
(* and translated by PyIndex.  A float that the code only ever divides     *)
(* once is the exact fraction [num, den].  A file path is a sequence of    *)
(* tokens in which "." and "/" are tokens of their own.                    *)
(***************************************************************************)
EXTENDS Integers, Sequences, FiniteSets, TLC

VARIABLES log, wl, files, dirs, agg_input, comm_info, pc, result

vars == <<log, wl, files, dirs, agg_input, comm_info, pc, result>>

(***************************************************************************)
(* Bounds of the model.                                                    *)
(***************************************************************************)
MaxLogs == 4

MaxEpochs == 5

MaxAggLen == 3

MaxSamples == 10

MaxDumpLogs == 3

MaxWorkload == 2

MaxDumpWorkload == 2

(***************************************************************************)
(* Python values.                                                          *)
(***************************************************************************)
None == << >>

Some(v) == << v >>

IsNone(o) == o = None

Val(o) == o[1]

NoError == "ok"

Range(s) == { s[i] : i \in DOMAIN s }

RECURSIVE SeqSum(_)
SeqSum(s) == IF s = << >> THEN 0 ELSE s[1] + SeqSum(Tail(s))

RECURSIVE Concat(_)
Concat(ss) == IF ss = << >> THEN << >> ELSE ss[1] \o Concat(Tail(ss))

SeqsUpTo(S, n) == UNION { [1..k -> S] : k \in 0..n }

\* list[i] for a Python index i, which counts from the end when negative.
PyIndexValid(s, i) == (-Len(s)) <= i /\ i < Len(s)

PyIndex(s, i) == IF i < 0 THEN s[Len(s) + i + 1] ELSE s[i + 1]

\* Python's max() and min(): one pass, keeping the first extreme value.
RECURSIVE PyMaxFrom(_, _)
PyMaxFrom(best, s) ==
  IF s = << >> THEN best
  ELSE PyMaxFrom(IF s[1] > best THEN s[1] ELSE best, Tail(s))

PyMax(s) == PyMaxFrom(s[1], Tail(s))

RECURSIVE PyMinFrom(_, _)
PyMinFrom(best, s) ==
  IF s = << >> THEN best
  ELSE PyMinFrom(IF s[1] < best THEN s[1] ELSE best, Tail(s))

PyMin(s) == PyMinFrom(s[1], Tail(s))

\* Python's sorted() on numbers: stable, ascending.
RECURSIVE InsertAsc(_, _)
InsertAsc(x, s) ==
  IF s = << >> THEN << x >>
  ELSE IF x < s[1] THEN << x >> \o s
  ELSE << s[1] >> \o InsertAsc(x, Tail(s))

RECURSIVE SortedAsc(_)
SortedAsc(s) ==
  IF s = << >> THEN << >>
  ELSE InsertAsc(s[Len(s)], SortedAsc(SubSeq(s, 1, Len(s) - 1)))

(***************************************************************************)
(* The enumerations of utils.utils (CommType, CommGroup) by their values,  *)
(* in the order Python sorts them.                                         *)
(***************************************************************************)
EnumOrder ==
  << "all", "all_reduce", "broadcast", "computation", "dp_group",
     "epoch_end", "tp_group" >>

EnumRank(v) == CHOOSE i \in DOMAIN EnumOrder : EnumOrder[i] = v

(***************************************************************************)
(* LogItem.                                                                *)
(***************************************************************************)
FieldNames ==
  << "comm_type", "comm_group", "comm_group_size", "msg_size", "stage",
     "dst", "src", "additional", "_elapsed_time", "algbw", "busbw", "count" >>

\* calc_bw_log(comm_type, msg_size, elapsed_time): a pair that depends on
\* its three arguments only.
calc_bw_log(comm_type, msg_size, elapsed_time) ==
  << << "algbw", comm_type, msg_size, elapsed_time >>,
     << "busbw", comm_type, msg_size, elapsed_time >> >>

\* convert_size_to_msg(size): the human-readable text of a byte count.
convert_size_to_msg(size) == << "size", size >>

\* LogItem(...) as Workload.append calls it; the remaining fields default.
LogItem(comm_type, comm_group, comm_group_size, msg_size, stage, src, dst, additional) ==
  [ comm_type |-> comm_type, comm_group |-> comm_group,
    comm_group_size |-> comm_group_size, msg_size |-> msg_size,
    stage |-> stage, dst |-> dst, src |-> src, additional |-> additional,
    _elapsed_time |-> None, algbw |-> None, busbw |-> None, count |-> 1 ]

\* The elapsed_time setter.
set_elapsed_time(item, elapsed_time) ==
  LET bw == calc_bw_log(item.comm_type, item.msg_size, elapsed_time)
  IN  [ item EXCEPT !._elapsed_time = Some(elapsed_time),
                    !.algbw = Some(bw[1]), !.busbw = Some(bw[2]) ]

elapsed_time(item) == item._elapsed_time

is_epoch_end(item) == item.comm_type = "epoch_end"

is_workload(item) == IsNone(elapsed_time(item))

csv_header(item) == FieldNames

view_as_csv_line(item) ==
  [ i \in DOMAIN FieldNames |-> << "str", item[FieldNames[i]] >> ]

(***************************************************************************)
(* The aggregator.                                                         *)
(***************************************************************************)
KeyOf(item, primary_key) ==
  [ i \in DOMAIN primary_key |-> item[primary_key[i]] ]

\* A variant that assigns the summed fields instead of adding to them.
update_info_assigns(info_dict, item, primary_key, agg_key, performance_key) ==
  LET k == KeyOf(item, primary_key)
      fresh == [ f \in Range(agg_key) \cup Range(performance_key) |->
                   IF f \in Range(agg_key) THEN 0 ELSE << >> ]
      old == IF k \in DOMAIN info_dict THEN info_dict[k] ELSE fresh
      new == [ f \in DOMAIN old |->
                 IF f \in Range(agg_key) THEN item[f]
                 ELSE Append(old[f], item[f]) ]
  IN  [ kk \in DOMAIN info_dict \cup { k } |->
          IF kk = k THEN new ELSE info_dict[kk] ]

\* __update_info: one record folded into one grouping.
update_info(info_dict, item, primary_key, agg_key, performance_key) ==
  LET k == KeyOf(item, primary_key)
      fresh == [ f \in Range(agg_key) \cup Range(performance_key) |->
                   IF f \in Range(agg_key) THEN 0 ELSE << >> ]
      old == IF k \in DOMAIN info_dict THEN info_dict[k] ELSE fresh
      new == [ f \in DOMAIN old |->
                 IF f \in Range(agg_key) THEN old[f] + item[f]
                 ELSE Append(old[f], item[f]) ]
  IN  [ kk \in DOMAIN info_dict \cup { k } |->
          IF kk = k THEN new ELSE info_dict[kk] ]

CoarseKey == << "comm_type", "comm_group" >>

CoarseAgg == << "count", "msg_size" >>

DetailedKey == << "comm_type", "comm_group", "msg_size" >>

DetailedAgg == << "count" >>

PerformanceKey == << "_elapsed_time" >>

EmptyDict == [ k \in {} |-> 0 ]

NewStage ==
  [ count |-> 0, comm_type_info |-> EmptyDict,
    detailed_comm_type_info |-> EmptyDict ]

RECURSIVE FoldStage(_, _)
FoldStage(st, comm_log) ==
  IF comm_log = << >> THEN st
  ELSE FoldStage(
         [ st EXCEPT
             !.comm_type_info =
               update_info(@, comm_log[1], CoarseKey, CoarseAgg,
                           PerformanceKey),
             !.detailed_comm_type_info =
               update_info(@, comm_log[1], DetailedKey, DetailedAgg,
                           PerformanceKey) ],
         Tail(comm_log))

\* _analyze_stage_log(comm_log, stage, comm_info): the updated comm_info.
analyze_stage_log(comm_log, stage, info) ==
  LET st0 == IF stage \in DOMAIN info THEN info[stage] ELSE NewStage
      st1 == [ st0 EXCEPT !.count = @ + 1 ]
      st2 == FoldStage(st1, comm_log)
  IN  [ s \in DOMAIN info \cup { stage } |->
          IF s = stage THEN st2 ELSE info[s] ]

\* The order of sorted() on the key tuples: by enumeration value, and by
\* number for msg_size.
RECURSIVE KeyLess(_, _, _)
KeyLess(a, b, primary_key) ==
  IF a = << >> THEN FALSE
  ELSE LET x == IF Head(primary_key) = "msg_size" THEN a[1]
                ELSE EnumRank(a[1])
           y == IF Head(primary_key) = "msg_size" THEN b[1]
                ELSE EnumRank(b[1])
       IN  IF x < y THEN TRUE
           ELSE IF y < x THEN FALSE
           ELSE KeyLess(Tail(a), Tail(b), Tail(primary_key))

RECURSIVE SortedKeys(_, _)
SortedKeys(keys, primary_key) ==
  IF keys = {} THEN << >>
  ELSE LET m == CHOOSE k \in keys :
                  \A o \in keys \ { k } : KeyLess(k, o, primary_key)
       IN  << m >> \o SortedKeys(keys \ { m }, primary_key)

\* A variant that negates after dividing: -(len(list)//9).
P90IndexNegatedLate(n) == -(n \div 9)

\* The index of the p90 sample: -len(list)//9, the floor of (-len)/9.
P90Index(n) == (-n) \div 9

\* The statistics of one sampled field, from its ascending-sorted list.
PerfStats(key, samples) ==
  LET performance_value_list == SortedAsc(samples)
      n == Len(samples)
      total == SeqSum(samples)
      squares == SeqSum([ i \in DOMAIN samples |-> samples[i] * samples[i] ])
  IN  [ key |-> key,
        mean |-> [ num |-> total, den |-> n ],
        variance |-> [ num |-> n * squares - total * total, den |-> n * n ],
        min |-> PyIndex(performance_value_list, 0),
        max |-> PyIndex(performance_value_list, -1),
        p90 |-> PyIndex(performance_value_list, P90Index(n)) ]

StageLine(stage_name, pkey, entry, primary_key, agg_key, performance_key) ==
  [ stage |-> stage_name,
    pkey |-> [ i \in DOMAIN primary_key |->
                 << primary_key[i],
                    IF primary_key[i] # "msg_size" THEN pkey[i]
                    ELSE convert_size_to_msg(pkey[i]) >> ],
    agg |-> [ i \in DOMAIN agg_key |->
                << agg_key[i],
                   IF agg_key[i] = "msg_size"
                     THEN convert_size_to_msg(entry[agg_key[i]])
                     ELSE entry[agg_key[i]] >> ],
    perf |-> [ i \in DOMAIN performance_key |->
                 PerfStats(performance_key[i],
                           [ j \in DOMAIN entry[performance_key[i]] |->
                               Val(entry[performance_key[i]][j]) ]) ] ]

\* Whether rendering a group raises: a sample that is None is no number.
LineRaises(entry, performance_key) ==
  \E i \in DOMAIN performance_key :
    \E j \in DOMAIN entry[performance_key[i]] :
      IsNone(entry[performance_key[i]][j])

\* _print_stage_log: the lines of log_str, one per key in sorted order.
print_stage_log(stage_name, stage_count, comm_type_info, primary_key, agg_key, performance_key) ==
  LET keys == SortedKeys(DOMAIN comm_type_info, primary_key)
  IN  IF \E i \in DOMAIN keys :
           LineRaises(comm_type_info[keys[i]], performance_key)
      THEN [ raised |-> "TypeError", lines |-> << >> ]
      ELSE [ raised |-> NoError,
             lines |-> [ i \in DOMAIN keys |->
                           StageLine(stage_name, keys[i],
                                     comm_type_info[keys[i]], primary_key,
                                     agg_key, performance_key) ] ]

(***************************************************************************)
(* Log.                                                                    *)
(***************************************************************************)
\* Log.__init__
NewLog ==
  [ comm_logs |-> << >>, comm_log_each_epoch |-> << << >> >>,
    epoch_times |-> << >> ]

\* A variant that opens the partition without recording the epoch time.
add_comm_log_no_time(self, comm_log) ==
  IF /\ is_epoch_end(comm_log)
     /\ Len(self.comm_logs) > 0
     /\ ~ is_epoch_end(self.comm_logs[Len(self.comm_logs)])
  THEN [ comm_logs |-> Append(self.comm_logs, comm_log),
         comm_log_each_epoch |-> Append(self.comm_log_each_epoch, << >>),
         epoch_times |-> self.epoch_times ]
  ELSE [ self EXCEPT
           !.comm_logs = Append(@, comm_log),
           !.comm_log_each_epoch[Len(self.comm_log_each_epoch)] =
             Append(@, comm_log) ]

\* A variant without the guard against two epoch-end records in a row.
add_comm_log_no_collapse(self, comm_log) ==
  IF /\ is_epoch_end(comm_log)
     /\ Len(self.comm_logs) > 0
  THEN [ comm_logs |-> Append(self.comm_logs, comm_log),
         comm_log_each_epoch |-> Append(self.comm_log_each_epoch, << >>),
         epoch_times |-> Append(self.epoch_times, elapsed_time(comm_log)) ]
  ELSE [ self EXCEPT
           !.comm_logs = Append(@, comm_log),
           !.comm_log_each_epoch[Len(self.comm_log_each_epoch)] =
             Append(@, comm_log) ]

\* A variant without the guard against an epoch-end record in an empty Log.
add_comm_log_first_closes(self, comm_log) ==
  IF /\ is_epoch_end(comm_log)
     /\ (Len(self.comm_logs) = 0 \/ ~ is_epoch_end(self.comm_logs[Len(self.comm_logs)]))
  THEN [ comm_logs |-> Append(self.comm_logs, comm_log),
         comm_log_each_epoch |-> Append(self.comm_log_each_epoch, << >>),
         epoch_times |-> Append(self.epoch_times, elapsed_time(comm_log)) ]
  ELSE [ self EXCEPT
           !.comm_logs = Append(@, comm_log),
           !.comm_log_each_epoch[Len(self.comm_log_each_epoch)] =
             Append(@, comm_log) ]

\* Log.add_comm_log
add_comm_log(self, comm_log) ==
  IF /\ is_epoch_end(comm_log)
     /\ Len(self.comm_logs) > 0
     /\ ~ is_epoch_end(self.comm_logs[Len(self.comm_logs)])
  THEN [ comm_logs |-> Append(self.comm_logs, comm_log),
         comm_log_each_epoch |-> Append(self.comm_log_each_epoch, << >>),
         epoch_times |-> Append(self.epoch_times, elapsed_time(comm_log)) ]
  ELSE [ self EXCEPT
           !.comm_logs = Append(@, comm_log),
           !.comm_log_each_epoch[Len(self.comm_log_each_epoch)] =
             Append(@, comm_log) ]

\* Log.analyze: what it prints, what it returns, whether it raises.
RECURSIVE FoldTrain(_, _)
FoldTrain(info, epochs) ==
  IF epochs = << >> THEN info
  ELSE FoldTrain(analyze_stage_log(epochs[1], "train", info), Tail(epochs))

StageOrder(info) ==
  IF "train" \in DOMAIN info THEN << "init", "train" >> ELSE << "init" >>

RECURSIVE EmitStages(_, _, _)
EmitStages(info, stages, out) ==
  IF stages = << >> THEN [ raised |-> NoError, out |-> out ]
  ELSE LET stage == stages[1]
           general == print_stage_log(stage, info[stage].count,
                        info[stage].comm_type_info, CoarseKey, CoarseAgg,
                        PerformanceKey)
           detailed == print_stage_log(stage, info[stage].count,
                         info[stage].detailed_comm_type_info, DetailedKey,
                         DetailedAgg, PerformanceKey)
           out1 == Append(out, << "general comm info for stage", stage >>)
           out2 == Append(out1, << "log_str", general.lines >>)
           out3 == Append(out2, << "detailed comm info for stage", stage >>)
           out4 == Append(out3, << "log_str", detailed.lines >>)
       IN  IF general.raised # NoError
             THEN [ raised |-> general.raised, out |-> out1 ]
           ELSE IF detailed.raised # NoError
             THEN [ raised |-> detailed.raised, out |-> out3 ]
           ELSE EmitStages(info, Tail(stages), out4)

analyze(self) ==
  LET info0 == analyze_stage_log(self.comm_log_each_epoch[1], "init",
                                 EmptyDict)
      info == FoldTrain(info0, Tail(self.comm_log_each_epoch))
      emitted == EmitStages(info, StageOrder(info), << >>)
  IN  [ op |-> "analyze", raised |-> emitted.raised, out |-> emitted.out,
        ret |-> IF emitted.raised = NoError THEN Some(info) ELSE None ]

\* Log.analyze_time: the Log it leaves, what it prints, whether it raises.
\* A variant that ranks among n - 1 entries.
PercentileIndexShort(n, percent) == ((n - 1) * percent) \div 100

\* int(len(sorted_list) * 0.9) and int(len(sorted_list) * 0.99)
PercentileIndex(n, percent) == (n * percent) \div 100

\* A variant that reads the init time without removing it.
PopInitKeeps(epoch_times) == epoch_times

\* self.epoch_times.pop(0)
PopInit(epoch_times) == Tail(epoch_times)

TimeHeader ==
  << << "--------------------------------------------------------" >>,
     << "result for epoch time " >> >>

analyze_time(self) ==
  IF Len(self.epoch_times) = 0
    THEN [ self |-> self, raised |-> "IndexError", out |-> TimeHeader ]
  ELSE IF IsNone(self.epoch_times[1])
    THEN [ self |-> self, raised |-> "TypeError", out |-> TimeHeader ]
  ELSE
    LET out1 == Append(TimeHeader,
                       << "init time is", Val(self.epoch_times[1]) >>)
        popped == [ self EXCEPT !.epoch_times = PopInit(@) ]
        rest == popped.epoch_times
    IN  IF rest = << >>
          THEN [ self |-> popped, raised |-> "ValueError", out |-> out1 ]
        ELSE IF \E i \in DOMAIN rest : IsNone(rest[i])
          THEN [ self |-> popped, raised |-> "TypeError", out |-> out1 ]
        ELSE
          LET times == [ i \in DOMAIN rest |-> Val(rest[i]) ]
              n == Len(times)
              max_val == PyMax(times)
              min_val == PyMin(times)
              total == SeqSum(times)
              squares == SeqSum([ i \in DOMAIN times |->
                                    times[i] * times[i] ])
              sorted_list == SortedAsc(times)
              p90_val == PyIndex(sorted_list, PercentileIndex(n, 90))
              p99_val == PyIndex(sorted_list, PercentileIndex(n, 99))
          IN  [ self |-> popped, raised |-> NoError,
                out |-> out1 \o
                  << << "max iteration time", max_val >>,
                     << "min iteration time", min_val >>,
                     << "avg iteration time",
                        [ num |-> total, den |-> n ] >>,
                     << "p90 iteration time", p90_val >>,
                     << "p99 iteration time", p99_val >>,
                     << "iteration time variance",
                        [ num |-> n * squares - total * total,
                          den |-> n * n ] >> >> ]

(***************************************************************************)
(* The records a driver adds to a Log: communication records and epoch-end *)
(* records, timed (elapsed_time set before the record is added) or not.    *)
(***************************************************************************)
TimeOptions == { None, Some(1), Some(2) }

MakeItem(comm_type, comm_group, msg_size, t) ==
  LET item == LogItem(comm_type, comm_group, 2, msg_size, "", None, None, Some(""))
  IN  IF IsNone(t) THEN item ELSE set_elapsed_time(item, Val(t))

CommItems == { MakeItem("all_reduce", "dp_group", 1024, t) : t \in TimeOptions }

EpochEndItems == { MakeItem("epoch_end", "all", 0, t) : t \in TimeOptions }

LogItems == CommItems \cup EpochEndItems

(***************************************************************************)
(* The state: one Log (log), one Workload (wl), the file system (files,    *)
(* dirs), the aggregator's input and accumulator (agg_input, comm_info,    *)
(* pc) and the outcome of the last call (result).                          *)
(***************************************************************************)
NewWorkload == [ workload |-> << >> ]

NoFiles == [ p \in {} |-> 0 ]

Init ==
  /\ log = NewLog
  /\ wl = NewWorkload
  /\ files = NoFiles
  /\ dirs = {}
  /\ agg_input = << >>
  /\ comm_info = EmptyDict
  /\ pc = "idle"
  /\ result = [ op |-> "init" ]

AddCommLogStep ==
  /\ Len(log.comm_logs) < MaxLogs
  /\ \E comm_log \in LogItems :
       /\ log' = add_comm_log(log, comm_log)
       /\ result' = [ op |-> "add_comm_log", raised |-> NoError ]
  /\ UNCHANGED <<wl, files, dirs, agg_input, comm_info, pc>>

AnalyzeStep ==
  /\ result' = analyze(log)
  /\ UNCHANGED <<log, wl, files, dirs, agg_input, comm_info, pc>>

AnalyzeTimeStep ==
  /\ LET r == analyze_time(log)
     IN  /\ log' = r.self
         /\ result' = [ op |-> "analyze_time", raised |-> r.raised, out |-> r.out ]
  /\ UNCHANGED <<wl, files, dirs, agg_input, comm_info, pc>>

Next == AddCommLogStep \/ AnalyzeStep \/ AnalyzeTimeStep

Spec == Init /\ [][Next]_vars

\* A Log driven by add_comm_log and analyze only.
NextAddAnalyze == AddCommLogStep \/ AnalyzeStep

SpecAddAnalyze == Init /\ [][NextAddAnalyze]_vars

(***************************************************************************)
(* Properties of Log.add_comm_log.                                         *)
(***************************************************************************)
Last(s) == s[Len(s)]

\* Position i of the flat sequence holds an epoch-end record that closed an
\* epoch: it is not the first record and follows a record of another kind.
Closes(flat, i) ==
  /\ i > 1
  /\ flat[i].comm_type = "epoch_end"
  /\ flat[i - 1].comm_type # "epoch_end"

Recorded(flat) == Cardinality({ i \in DOMAIN flat : Closes(flat, i) })

\* C1: adding an epoch-end record r to a Log whose flat sequence is
\* non-empty and does not end with an epoch-end record adds one partition,
\* appends r's elapsed time (and nothing else) to epoch_times, appends r to
\* the flat sequence and leaves every earlier partition as it was.
C1_EpochEndClosesEpoch ==
  [][ ( /\ Len(log'.comm_logs) = Len(log.comm_logs) + 1
        /\ Last(log'.comm_logs).comm_type = "epoch_end"
        /\ Len(log.comm_logs) > 0
        /\ Last(log.comm_logs).comm_type # "epoch_end" )
      => ( /\ Len(log'.comm_log_each_epoch) = Len(log.comm_log_each_epoch) + 1
           /\ log'.epoch_times =
                log.epoch_times \o << Last(log'.comm_logs)._elapsed_time >>
           /\ SubSeq(log'.comm_logs, 1, Len(log.comm_logs)) = log.comm_logs
           /\ \A i \in DOMAIN log.comm_log_each_epoch :
                log'.comm_log_each_epoch[i] = log.comm_log_each_epoch[i] )
    ]_vars

C1_Witness ==
  /\ result.op = "add_comm_log"
  /\ Len(log.comm_logs) >= 2
  /\ Closes(log.comm_logs, Len(log.comm_logs))
  /\ Len(log.comm_log_each_epoch) = 2
  /\ log.epoch_times = << Some(2) >>

\* The outcome of adding two epoch-end records e1, e2 in a row to a Log.
AfterTwo(self, e1, e2) == add_comm_log(add_comm_log(self, e1), e2)

TwoEpochEndsApply ==
  /\ Len(log.comm_logs) > 0
  /\ Last(log.comm_logs).comm_type # "epoch_end"

\* C2 as stated: after two consecutive epoch-end records the partition
\* count is up by 1 and the second record sits in the just-closed partition
\* (the one that was last before the first epoch-end record was added).
C2_AsStated ==
  TwoEpochEndsApply =>
    \A e1 \in EpochEndItems, e2 \in EpochEndItems :
      LET n == Len(log.comm_log_each_epoch)
          after == AfterTwo(log, e1, e2)
      IN  /\ Len(after.comm_log_each_epoch) = n + 1
          /\ after.comm_logs = log.comm_logs \o << e1, e2 >>
          /\ after.comm_log_each_epoch[n] =
               Append(log.comm_log_each_epoch[n], e2)

\* C2, amended: after two consecutive epoch-end records the partition count
\* is up by 1 in total, both records are appended to the flat sequence, the
\* second record is the only member of the partition the first one opened
\* (the new last partition), every earlier partition, the just-closed one
\* included, is unchanged, and epoch_times gains the first record's time
\* only.
C2_SecondEpochEndInNewPartition ==
  TwoEpochEndsApply =>
    \A e1 \in EpochEndItems, e2 \in EpochEndItems :
      LET n == Len(log.comm_log_each_epoch)
          after == AfterTwo(log, e1, e2)
      IN  /\ Len(after.comm_log_each_epoch) = n + 1
          /\ after.comm_logs = log.comm_logs \o << e1, e2 >>
          /\ after.comm_log_each_epoch[n + 1] = << e2 >>
          /\ \A i \in 1..n :
               after.comm_log_each_epoch[i] = log.comm_log_each_epoch[i]
          /\ after.epoch_times = Append(log.epoch_times, e1._elapsed_time)

C2_Witness ==
  /\ result.op = "add_comm_log"
  /\ Len(log.comm_logs) >= 3
  /\ Closes(log.comm_logs, Len(log.comm_logs) - 1)
  /\ Last(log.comm_logs).comm_type = "epoch_end"
  /\ Last(log.comm_log_each_epoch) = << Last(log.comm_logs) >>

(***************************************************************************)
(* Properties of Log.analyze_time's precondition.                          *)
(***************************************************************************)
AllTimed(flat) ==
  \A i \in DOMAIN flat : Closes(flat, i) => flat[i]._elapsed_time # None

\* C6 as stated: analyze_time fails when fewer than 2 epoch boundaries were
\* ever recorded, and succeeds whenever at least 2 were (each with its
\* elapsed time set).
C6_AsStated ==
  [][ result'.op = "analyze_time" =>
        /\ Recorded(log.comm_logs) < 2 => result'.raised # NoError
        /\ (Recorded(log.comm_logs) >= 2 /\ AllTimed(log.comm_logs))
             => result'.raised = NoError
    ]_vars

\* C6, amended: analyze_time succeeds exactly when epoch_times holds, at the
\* time of the call, at least 2 entries and none of them is None; so it
\* fails whenever fewer than 2 epoch boundaries were ever recorded, and also
\* when earlier calls have consumed all but one of the recorded entries.  A
\* failing call leaves the Log unchanged when epoch_times is empty or starts
\* with None, and otherwise has already removed the first entry.
C6_FailsWithoutTwoStoredTimes ==
  [][ result'.op = "analyze_time" =>
        /\ result'.raised = NoError
             <=> ( /\ Len(log.epoch_times) >= 2
                   /\ \A i \in DOMAIN log.epoch_times :
                        log.epoch_times[i] # None )
        /\ Recorded(log.comm_logs) < 2 => result'.raised # NoError
        /\ log'.comm_logs = log.comm_logs
        /\ log'.comm_log_each_epoch = log.comm_log_each_epoch
        /\ log'.epoch_times =
             IF log.epoch_times = << >> \/ log.epoch_times[1] = None
               THEN log.epoch_times ELSE Tail(log.epoch_times)
    ]_vars

C6_Witness ==
  /\ result.op = "analyze_time"
  /\ result.raised = "ValueError"
  /\ Recorded(log.comm_logs) = 2
  /\ AllTimed(log.comm_logs)
  /\ log.epoch_times = << >>

(***************************************************************************)
(* The partition invariant of a Log that is only added to and analyzed.    *)
(***************************************************************************)
RECURSIVE WithoutClosers(_, _)
WithoutClosers(flat, i) ==
  IF i > Len(flat) THEN << >>
  ELSE (IF Closes(flat, i) THEN << >> ELSE << flat[i] >>)
         \o WithoutClosers(flat, i + 1)

EpochEndsFirst(part) ==
  \A i \in DOMAIN part, j \in DOMAIN part :
    (i < j /\ part[j].comm_type = "epoch_end")
      => part[i].comm_type = "epoch_end"

\* C10: in a Log reached by add_comm_log and analyze calls, there is one
\* partition more than there are epoch times; the flat sequence holds the
\* records of all partitions plus one closing epoch-end record per epoch
\* time; the partitions, concatenated, are the flat sequence without the
\* closing epoch-end records; and the epoch-end records of a partition come
\* before its other records.
C10_PartitionInvariant ==
  /\ Len(log.comm_log_each_epoch) = Len(log.epoch_times) + 1
  /\ Len(log.comm_logs) =
       Len(Concat(log.comm_log_each_epoch)) + Len(log.epoch_times)
  /\ Concat(log.comm_log_each_epoch) = WithoutClosers(log.comm_logs, 1)
  /\ \A p \in DOMAIN log.comm_log_each_epoch :
       EpochEndsFirst(log.comm_log_each_epoch[p])

C10_Witness ==
  /\ result.op = "analyze"
  /\ Len(log.comm_logs) = 4
  /\ Len(log.comm_log_each_epoch) = 2
  /\ Len(log.comm_log_each_epoch[2]) = 2
  /\ log.comm_log_each_epoch[2][1].comm_type = "epoch_end"
  /\ log.comm_log_each_epoch[2][2].comm_type # "epoch_end"

(***************************************************************************)
(* Log.analyze_time on the Logs of a driver that times every epoch: each   *)
(* epoch is one communication record followed by its epoch-end record.     *)
(***************************************************************************)
EpochTimeValues == { 5, 6, 7, 9, 10 }

RECURSIVE RunEpochs(_, _)
RunEpochs(self, ts) ==
  IF ts = << >> THEN self
  ELSE RunEpochs(
         add_comm_log(
           add_comm_log(self, MakeItem("all_reduce", "dp_group", 1024, Some(1))),
           MakeItem("epoch_end", "all", 0, Some(ts[1]))),
         Tail(ts))

InitTime ==
  /\ log \in { RunEpochs(NewLog, ts) : ts \in SeqsUpTo(EpochTimeValues, MaxEpochs) }
  /\ wl = NewWorkload
  /\ files = NoFiles
  /\ dirs = {}
  /\ agg_input = << >>
  /\ comm_info = EmptyDict
  /\ pc = "idle"
  /\ result = [ op |-> "init" ]

NextTime == AnalyzeTimeStep

SpecTime == InitTime /\ [][NextTime]_vars

\* The value at 0-based position k of the ascending order of s: fewer than
\* k + 1 entries lie below it and at least k + 1 entries do not exceed it.
IsRanked(s, k, v) ==
  /\ \E i \in DOMAIN s : s[i] = v
  /\ Cardinality({ i \in DOMAIN s : s[i] < v }) <= k
  /\ Cardinality({ i \in DOMAIN s : s[i] <= v }) > k

IsFloorOf(k, num, den) == k * den <= num /\ num < (k + 1) * den

Numbers(os) == [ i \in DOMAIN os |-> os[i][1] ]

\* C5: with at least 2 entries in epoch_times (all numbers), analyze_time
\* reports the first entry as the init time, removes that entry and no
\* other, and reports over the n remaining entries their maximum, minimum,
\* arithmetic mean, population variance, and the entries at positions
\* floor(0.9 n) and floor(0.99 n) of their ascending order; for
\* [10, 5, 7, 9, 6] that is init 10, max 9, min 5, mean 6.75, p90 9, and
\* the next call reports 5 as the init time.
C5_AnalyzeTimeStatistics ==
  [][ ( /\ result'.op = "analyze_time"
        /\ Len(log.epoch_times) >= 2
        /\ \A i \in DOMAIN log.epoch_times : log.epoch_times[i] # None )
      => LET rest == Numbers(Tail(log.epoch_times))
             n == Len(rest)
             out == result'.out
             mean == out[6][2]
             variance == out[9][2]
         IN  /\ result'.raised = NoError
             /\ Len(out) = 9
             /\ out[3] = << "init time is", log.epoch_times[1][1] >>
             /\ log'.epoch_times = Tail(log.epoch_times)
             /\ out[4][1] = "max iteration time"
             /\ \E i \in DOMAIN rest : rest[i] = out[4][2]
             /\ \A i \in DOMAIN rest : rest[i] <= out[4][2]
             /\ out[5][1] = "min iteration time"
             /\ \E i \in DOMAIN rest : rest[i] = out[5][2]
             /\ \A i \in DOMAIN rest : rest[i] >= out[5][2]
             /\ out[6][1] = "avg iteration time"
             /\ mean.den > 0
             /\ mean.num * n = SeqSum(rest) * mean.den
             /\ out[7][1] = "p90 iteration time"
             /\ \E k \in 0..(n - 1) :
                  IsFloorOf(k, 9 * n, 10) /\ IsRanked(rest, k, out[7][2])
             /\ out[8][1] = "p99 iteration time"
             /\ \E k \in 0..(n - 1) :
                  IsFloorOf(k, 99 * n, 100) /\ IsRanked(rest, k, out[8][2])
             /\ out[9][1] = "iteration time variance"
             /\ variance.den > 0
             /\ variance.num * n * n * n =
                  variance.den *
                    SeqSum([ i \in DOMAIN rest |->
                               (n * rest[i] - SeqSum(rest))
                                 * (n * rest[i] - SeqSum(rest)) ])
             /\ log.epoch_times = << <<10>>, <<5>>, <<7>>, <<9>>, <<6>> >>
                  => /\ out[3][2] = 10
                     /\ out[4][2] = 9
                     /\ out[5][2] = 5
                     /\ mean.num * 100 = 675 * mean.den
                     /\ out[7][2] = 9
             /\ log.epoch_times = << <<5>>, <<7>>, <<9>>, <<6>> >>
                  => out[3][2] = 5
    ]_vars

C5_Witness ==
  /\ result.op = "analyze_time"
  /\ result.raised = NoError
  /\ result.out[3] = << "init time is", 10 >>
  /\ result.out[7] = << "p90 iteration time", 9 >>
  /\ log.epoch_times = << <<5>>, <<7>>, <<9>>, <<6>> >>

(***************************************************************************)
(* The aggregator on its own: _analyze_stage_log folds a list of timed     *)
(* records into comm_info, _print_stage_log renders both groupings.        *)
(***************************************************************************)
AggKeys ==
  { << "all_reduce", "dp_group" >>, << "all_reduce", "tp_group" >>,
    << "broadcast", "tp_group" >> }

AggTimes == { 50, 100, 200 }

AggSizes == { << 1024, 1 >>, << 2048, 2 >> }

\* A timed record with the given key, elapsed time, msg_size and count.
AggItem(key, t, size) ==
  [ MakeItem(key[1], key[2], size[1], Some(t)) EXCEPT !.count = size[2] ]

AggRecords == { AggItem(k, t, s) : k \in AggKeys, t \in AggTimes, s \in AggSizes }

\* n records of one group whose elapsed times are 1..n, started at k + 1.
SampleRun(n, k) ==
  [ i \in 1..n |->
      AggItem(<< "all_reduce", "dp_group" >>, ((i + k - 1) % n) + 1, << 1024, 1 >>) ]

SampleRuns == { SampleRun(n, k) : n \in 1..MaxSamples, k \in { 0, 1 } }

AggInputs == SeqsUpTo(AggRecords, MaxAggLen) \cup SampleRuns

InitAgg ==
  /\ log = NewLog
  /\ wl = NewWorkload
  /\ files = NoFiles
  /\ dirs = {}
  /\ agg_input \in AggInputs
  /\ comm_info = EmptyDict
  /\ pc = "input"
  /\ result = [ op |-> "init" ]

AnalyzeStageStep ==
  /\ pc = "input"
  /\ \E stage \in { "init", "train" } :
       comm_info' = analyze_stage_log(agg_input, stage, comm_info)
  /\ pc' = "analyzed"
  /\ result' = [ op |-> "_analyze_stage_log", raised |-> NoError ]
  /\ UNCHANGED <<log, wl, files, dirs, agg_input>>

PrintStageStep ==
  /\ pc = "analyzed"
  /\ \E stage \in DOMAIN comm_info :
       result' =
         [ op |-> "_print_stage_log",
           stage |-> stage,
           general |->
             print_stage_log(stage, comm_info[stage].count,
                             comm_info[stage].comm_type_info, CoarseKey,
                             CoarseAgg, PerformanceKey),
           detailed |->
             print_stage_log(stage, comm_info[stage].count,
                             comm_info[stage].detailed_comm_type_info,
                             DetailedKey, DetailedAgg, PerformanceKey) ]
  /\ pc' = "printed"
  /\ UNCHANGED <<log, wl, files, dirs, agg_input, comm_info>>

NextAgg == AnalyzeStageStep \/ PrintStageStep

SpecAgg == InitAgg /\ [][NextAgg]_vars

\* The records of the input that a rendered line stands for, in input order.
InLine(item, line) ==
  \A i \in DOMAIN line.pkey :
    line.pkey[i][2] =
      IF line.pkey[i][1] = "msg_size" THEN convert_size_to_msg(item.msg_size)
      ELSE item[line.pkey[i][1]]

LineSamples(line) ==
  LET Test(item) == InLine(item, line)
      members == SelectSeq(agg_input, Test)
  IN  [ i \in DOMAIN members |-> members[i]._elapsed_time[1] ]

PrintedLines ==
  IF pc = "printed" THEN Range(result.general.lines) \cup Range(result.detailed.lines)
  ELSE {}

\* C4 as stated: the rendered p90 of a group with len samples is the entry
\* at index len - len // 9 of the ascending-sorted samples, and that index
\* is a position of the list.
C4_AsStated ==
  \A line \in PrintedLines :
    LET samples == LineSamples(line)
        n == Len(samples)
        index == n - (n \div 9)
    IN  /\ 0 <= index /\ index < n
        /\ IsRanked(samples, index, line.perf[1].p90)

\* C4, amended: the rendered p90 of a group with len >= 1 samples is the
\* entry at index len - ceil(len / 9) of the ascending-sorted samples (the
\* code's index is (-len) // 9, counted from the end), which is always a
\* position of the list; it is the stated index len - len // 9 only when
\* len is a multiple of 9.
C4_P90Index ==
  \A line \in PrintedLines :
    LET samples == LineSamples(line)
        n == Len(samples)
    IN  /\ n >= 1
        /\ PyIndexValid(samples, P90Index(n))
        /\ \E c \in 1..n :
             /\ 9 * (c - 1) < n /\ n <= 9 * c
             /\ 0 <= n - c /\ n - c < n
             /\ IsRanked(samples, n - c, line.perf[1].p90)
             /\ (n - c = n - (n \div 9)) <=> (n % 9 = 0)

C4_Witness ==
  /\ pc = "printed"
  /\ Len(agg_input) = 10
  /\ Len(result.general.lines) = 1
  /\ result.general.lines[1].perf[1].p90 = 9
  /\ result.general.lines[1].perf[1].max = 10

\* C7: the coarse grouping has one group per (comm_type, comm_group) pair
\* of the input; a group's count and msg_size are the sums over its records
\* and its samples are its records' elapsed times in input order; the
\* rendered mean, minimum and maximum are those of the samples.  For
\* [(A,g1,100), (A,g1,200), (B,g2,50)]: (A,g1) has count 2, samples
\* [100, 200], mean 150, min 100, max 200 and (B,g2) count 1, samples [50].
GroupOf(key) ==
  LET Test(item) == << item.comm_type, item.comm_group >> = key
  IN  SelectSeq(agg_input, Test)

ExampleInput ==
  << AggItem(<< "all_reduce", "dp_group" >>, 100, << 1024, 1 >>),
     AggItem(<< "all_reduce", "dp_group" >>, 200, << 1024, 1 >>),
     AggItem(<< "broadcast", "tp_group" >>, 50, << 1024, 1 >>) >>

C7_CoarseGrouping ==
  /\ pc \in { "analyzed", "printed" } =>
       \A stage \in DOMAIN comm_info :
         LET coarse == comm_info[stage].comm_type_info
         IN  /\ DOMAIN coarse =
                  { << agg_input[i].comm_type, agg_input[i].comm_group >> :
                      i \in DOMAIN agg_input }
             /\ \A key \in DOMAIN coarse :
                  LET group == GroupOf(key)
                  IN  /\ coarse[key]["count"] =
                           SeqSum([ i \in DOMAIN group |-> group[i].count ])
                      /\ coarse[key]["msg_size"] =
                           SeqSum([ i \in DOMAIN group |-> group[i].msg_size ])
                      /\ coarse[key]["_elapsed_time"] =
                           [ i \in DOMAIN group |-> group[i]._elapsed_time ]
             /\ agg_input = ExampleInput =>
                  /\ DOMAIN coarse =
                       { << "all_reduce", "dp_group" >>, << "broadcast", "tp_group" >> }
                  /\ coarse[<< "all_reduce", "dp_group" >>]["count"] = 2
                  /\ coarse[<< "all_reduce", "dp_group" >>]["_elapsed_time"] =
                       << <<100>>, <<200>> >>
                  /\ coarse[<< "broadcast", "tp_group" >>]["count"] = 1
                  /\ coarse[<< "broadcast", "tp_group" >>]["_elapsed_time"] =
                       << <<50>> >>
  /\ pc = "printed" =>
       /\ result.general.raised = NoError
       /\ Len(result.general.lines) =
            Cardinality({ << agg_input[i].comm_type, agg_input[i].comm_group >> :
                            i \in DOMAIN agg_input })
       /\ \A l \in DOMAIN result.general.lines :
            LET line == result.general.lines[l]
                samples == LineSamples(line)
                stats == line.perf[1]
            IN  /\ stats.mean.den > 0
                /\ stats.mean.num * Len(samples) = SeqSum(samples) * stats.mean.den
                /\ \E i \in DOMAIN samples : samples[i] = stats.min
                /\ \A i \in DOMAIN samples : samples[i] >= stats.min
                /\ \E i \in DOMAIN samples : samples[i] = stats.max
                /\ \A i \in DOMAIN samples : samples[i] <= stats.max
       /\ agg_input = ExampleInput =>
            /\ result.general.lines[1].pkey =
                 << << "comm_type", "all_reduce" >>, << "comm_group", "dp_group" >> >>
            /\ result.general.lines[1].perf[1].mean.num =
                 150 * result.general.lines[1].perf[1].mean.den
            /\ result.general.lines[1].perf[1].min = 100
            /\ result.general.lines[1].perf[1].max = 200
            /\ result.general.lines[2].pkey =
                 << << "comm_type", "broadcast" >>, << "comm_group", "tp_group" >> >>

C7_Witness ==
  /\ pc = "printed"
  /\ agg_input = ExampleInput
  /\ Len(result.general.lines) = 2
  /\ result.general.lines[1].agg[1] = << "count", 2 >>


(***************************************************************************)
(* Paths and the file system.  A path is the sequence of its characters;   *)
(* files maps the path of each file to its content and dirs holds the      *)
(* directories that exist besides the working directory.                   *)
(***************************************************************************)
HasChar(path, c) == \E i \in DOMAIN path : path[i] = c

FirstOf(path, c) == CHOOSE i \in DOMAIN path : path[i] = c /\ \A j \in 1..(i - 1) : path[j] # c

LastOf(path, c) == CHOOSE i \in DOMAIN path : path[i] = c /\ \A j \in (i + 1)..Len(path) : path[j] # c

\* filename.split(".")[0]
SplitFirst(filename) ==
  IF HasChar(filename, ".") THEN SubSeq(filename, 1, FirstOf(filename, ".") - 1)
  ELSE filename

\* os.path.basename and os.path.dirname
Basename(path) ==
  IF HasChar(path, "/") THEN SubSeq(path, LastOf(path, "/") + 1, Len(path))
  ELSE path

Dirname(path) ==
  IF HasChar(path, "/") THEN SubSeq(path, 1, LastOf(path, "/") - 1)
  ELSE << >>

\* os.path.join(folder, name) for a folder that ends with "/"
PathJoin(folder, name) ==
  IF name # << >> /\ name[1] = "/" THEN name ELSE folder \o name

\* os.makedirs: the directory and every directory above it.
MakeDirs(folder) ==
  { SubSeq(folder, 1, i) : i \in { j \in DOMAIN folder : j = Len(folder) \/ folder[j + 1] = "/" } }

\* open(path, "w"): the directory of the path has to exist.
CanCreate(path, existing) == Dirname(path) = << >> \/ Dirname(path) \in existing

\* A variant that appends ".pkl" to the path it is given.
pkl_path_appends(filename) == filename \o << ".", "p", "k", "l" >>

\* The path load() opens: the text after the last "." replaced by "pkl".
pkl_path(filename) ==
  IF HasChar(filename, ".")
    THEN SubSeq(filename, 1, LastOf(filename, ".")) \o << "p", "k", "l" >>
  ELSE << "p", "k", "l" >>

\* pickle: an object is written as the tuple of its state, a LogItem as the
\* values of its fields in declaration order, and read back field by field.
PickleItem(item) == [ i \in DOMAIN FieldNames |-> item[FieldNames[i]] ]

UnpickleItem(t) ==
  [ f \in Range(FieldNames) |-> t[CHOOSE i \in DOMAIN FieldNames : FieldNames[i] = f] ]

PickleItems(items) == [ i \in DOMAIN items |-> PickleItem(items[i]) ]

UnpickleItems(ts) == [ i \in DOMAIN ts |-> UnpickleItem(ts[i]) ]

PickleLog(self) ==
  << "Log", PickleItems(self.comm_logs),
     [ p \in DOMAIN self.comm_log_each_epoch |-> PickleItems(self.comm_log_each_epoch[p]) ],
     self.epoch_times >>

UnpickleLog(data) ==
  [ comm_logs |-> UnpickleItems(data[2]),
    comm_log_each_epoch |-> [ p \in DOMAIN data[3] |-> UnpickleItems(data[3][p]) ],
    epoch_times |-> data[4] ]

\* A variant that snapshots the Workload without its configuration.
PickleWorkloadOnly(self, args) == << "tuple", << "Workload", PickleItems(self.workload) >>, None >>

PickleWorkload(self, args) == << "tuple", << "Workload", PickleItems(self.workload) >>, args >>

UnpickleWorkload(data) == << [ workload |-> UnpickleItems(data[2][2]) ], data[3] >>

CsvOf(items) ==
  << csv_header(items[1]) >> \o [ i \in DOMAIN items |-> view_as_csv_line(items[i]) ]

WriteFile(fs, path, content) ==
  [ p \in DOMAIN fs \cup { path } |-> IF p = path THEN content ELSE fs[p] ]

(***************************************************************************)
(* Log.dump and Log.load.                                                  *)
(***************************************************************************)
LogFolder == << "r", "e", "s", "u", "l", "t", "s", "/", "c", "o", "m", "m", "_", "l", "o", "g", "s", "/" >>

\* Log.dump(filename): the file system it leaves and whether it raises.
log_dump(self, filename, fs, existing) ==
  LET existing1 == existing \cup MakeDirs(Dirname(LogFolder))
      base == PathJoin(LogFolder, SplitFirst(filename))
      csv_filename == base \o << "_", "l", "o", "g", ".", "c", "s", "v" >>
      pkl_filename == base \o << "_", "l", "o", "g", ".", "p", "k", "l" >>
      opened == WriteFile(fs, csv_filename, << >>)
      written == WriteFile(fs, csv_filename, CsvOf(self.comm_logs))
  IN  IF ~ CanCreate(csv_filename, existing1)
        THEN [ raised |-> "FileNotFoundError", files |-> fs, dirs |-> existing1,
               csv |-> csv_filename, pkl |-> pkl_filename ]
      ELSE IF self.comm_logs = << >>
        THEN [ raised |-> "IndexError", files |-> opened, dirs |-> existing1,
               csv |-> csv_filename, pkl |-> pkl_filename ]
      ELSE [ raised |-> NoError,
             files |-> WriteFile(written, pkl_filename, PickleLog(self)),
             dirs |-> existing1, csv |-> csv_filename, pkl |-> pkl_filename ]

\* Log.load(filename)
log_load(filename, fs) ==
  IF pkl_path(filename) \in DOMAIN fs
    THEN [ raised |-> NoError, ret |-> Some(UnpickleLog(fs[pkl_path(filename)])) ]
  ELSE [ raised |-> "FileNotFoundError", ret |-> None ]

LogDumpNames == { << "a" >>, << "a", ".", "c", "s", "v" >>, << "d", "/", "a", ".", "c", "s", "v" >>, << ".", "h" >> }

LogLoadNames ==
  LogDumpNames
    \cup { PathJoin(LogFolder, SplitFirst(n)) \o << "_", "l", "o", "g", ".", "c", "s", "v" >> : n \in LogDumpNames }
    \cup { PathJoin(LogFolder, SplitFirst(n)) \o << "_", "l", "o", "g", ".", "p", "k", "l" >> : n \in LogDumpNames }

DumpItems ==
  { MakeItem("all_reduce", "dp_group", 1024, Some(1)), MakeItem("epoch_end", "all", 0, Some(2)) }

AddForDumpStep ==
  /\ Len(log.comm_logs) < MaxDumpLogs
  /\ \E comm_log \in DumpItems :
       /\ log' = add_comm_log(log, comm_log)
       /\ result' = [ op |-> "add_comm_log", raised |-> NoError ]
  /\ UNCHANGED <<wl, files, dirs, agg_input, comm_info, pc>>

LogDumpStep ==
  /\ \E filename \in LogDumpNames :
       LET r == log_dump(log, filename, files, dirs)
       IN  /\ files' = r.files
           /\ dirs' = r.dirs
           /\ result' = [ op |-> "dump", raised |-> r.raised, csv |-> r.csv, pkl |-> r.pkl ]
  /\ UNCHANGED <<log, wl, agg_input, comm_info, pc>>

LogLoadStep ==
  /\ \E filename \in LogLoadNames :
       LET r == log_load(filename, files)
       IN  result' = [ op |-> "load", arg |-> filename, raised |-> r.raised, ret |-> r.ret ]
  /\ UNCHANGED <<log, wl, files, dirs, agg_input, comm_info, pc>>

NextLogDump == AddForDumpStep \/ LogDumpStep \/ LogLoadStep

SpecLogDump == Init /\ [][NextLogDump]_vars

\* The runs of consecutive epoch-end records of a flat sequence.
EpochEndRuns(flat) ==
  Cardinality({ i \in DOMAIN flat :
                  /\ flat[i].comm_type = "epoch_end"
                  /\ (i = 1 \/ flat[i - 1].comm_type # "epoch_end") })

DumpThenLoad ==
  /\ result.op = "dump"
  /\ result.raised = NoError
  /\ result'.op = "load"
  /\ result'.arg \in { result.csv, result.pkl }

\* C3 as stated: dump followed by load of a Log of N >= 1 records gives a
\* Log whose flat sequence has length N and whose partition count is the
\* number of runs of consecutive epoch-end records added.
C3_AsStated ==
  [][ DumpThenLoad =>
        /\ result'.raised = NoError
        /\ Len(result'.ret[1].comm_logs) = Len(log.comm_logs)
        /\ Len(result'.ret[1].comm_log_each_epoch) = EpochEndRuns(log.comm_logs)
    ]_vars

\* C3, amended: dump followed by load (of the CSV's path or the snapshot's)
\* of a Log of N >= 1 records gives a Log equal to the dumped one: its flat
\* sequence has length N and its partition count is 1 plus the number of
\* runs of consecutive epoch-end records that follow a record of another
\* kind (a run at the very start of the sequence opens no partition).
C3_DumpLoadPartitions ==
  [][ DumpThenLoad =>
        /\ result'.raised = NoError
        /\ result'.ret = Some(log)
        /\ Len(log.comm_logs) >= 1
        /\ Len(result'.ret[1].comm_logs) = Len(log.comm_logs)
        /\ Len(result'.ret[1].comm_log_each_epoch) = 1 + Recorded(log.comm_logs)
        /\ Recorded(log.comm_logs) =
             EpochEndRuns(log.comm_logs)
               - (IF log.comm_logs[1].comm_type = "epoch_end" THEN 1 ELSE 0)
    ]_vars

C3_Witness ==
  /\ result.op = "load"
  /\ result.raised = NoError
  /\ Last(result.arg) = "v"
  /\ result.ret = Some(log)
  /\ Len(log.comm_logs) = 3
  /\ log.comm_logs[1].comm_type = "epoch_end"
  /\ Len(log.comm_log_each_epoch) = 1


(***************************************************************************)
(* Workload.                                                               *)
(***************************************************************************)
Get(log_item, key, default) == IF key \in DOMAIN log_item THEN Some(log_item[key]) ELSE default

\* A variant that never asks for comm_group.
GroupRequiredNever(log_item) == FALSE

\* The assertion of append: comm_group may be absent for computation only.
GroupRequired(log_item) == log_item["comm_type"] # "computation"

\* Workload.append(log_item) for a dict: the Workload it leaves and whether
\* it raises.  The dict is a function from the keys it holds.
append_dict(self, log_item) ==
  LET staged ==
        IF "stage" \in DOMAIN log_item THEN log_item
        ELSE [ k \in DOMAIN log_item \cup { "stage" } |->
                 IF k = "stage"
                   THEN (IF "operation" \in DOMAIN log_item THEN log_item["operation"] ELSE "")
                 ELSE log_item[k] ]
      grouped ==
        [ k \in DOMAIN staged \cup { "comm_group" } |->
            IF k = "comm_group" /\ "comm_group" \notin DOMAIN staged THEN "all" ELSE staged[k] ]
  IN  IF "comm_group" \notin DOMAIN staged /\ "comm_type" \notin DOMAIN staged
        THEN [ self |-> self, raised |-> "KeyError" ]
      ELSE IF "comm_group" \notin DOMAIN staged /\ GroupRequired(staged)
        THEN [ self |-> self, raised |-> "AssertionError" ]
      ELSE IF \E k \in { "comm_type", "comm_group_size", "msg_size" } : k \notin DOMAIN grouped
        THEN [ self |-> self, raised |-> "KeyError" ]
      ELSE [ self |->
               [ self EXCEPT !.workload =
                   Append(@, LogItem(grouped["comm_type"], grouped["comm_group"],
                                     grouped["comm_group_size"], grouped["msg_size"],
                                     grouped["stage"], Get(grouped, "src", None),
                                     Get(grouped, "dst", None),
                                     Get(grouped, "additional", None))) ],
             raised |-> NoError ]

\* Workload.append(log_item) for a LogItem.
append_item(self, log_item) == [ self EXCEPT !.workload = Append(@, log_item) ]

\* Workload.extend(new_workload)
extend(self, new_workload) == [ self EXCEPT !.workload = @ \o new_workload.workload ]

\* The dicts handed to append: a source rank, no destination and no
\* annotation, and any of the other keys.
FullDict(comm_type) ==
  [ comm_type |-> comm_type, comm_group |-> "dp_group", comm_group_size |-> 2,
    msg_size |-> 1024, stage |-> "forward", operation |-> "attention", src |-> 0 ]

OptionalKeys ==
  { "comm_type", "comm_group", "comm_group_size", "msg_size", "stage", "operation" }

Restrict(f, keys) == [ k \in keys |-> f[k] ]

Dicts ==
  { Restrict(FullDict(t), keys \cup { "src" }) :
      t \in { "computation", "all_reduce" }, keys \in SUBSET OptionalKeys }

WorkloadItems ==
  { MakeItem("all_reduce", "dp_group", 1024, None), MakeItem("all_reduce", "dp_group", 1024, Some(1)) }

AppendDictStep ==
  /\ Len(wl.workload) < MaxWorkload
  /\ \E log_item \in Dicts :
       LET r == append_dict(wl, log_item)
       IN  /\ wl' = r.self
           /\ result' = [ op |-> "append", kind |-> "dict", arg |-> log_item, raised |-> r.raised ]
  /\ UNCHANGED <<log, files, dirs, agg_input, comm_info, pc>>

AppendItemStep ==
  /\ Len(wl.workload) < MaxWorkload
  /\ \E log_item \in WorkloadItems :
       /\ wl' = append_item(wl, log_item)
       /\ result' = [ op |-> "append", kind |-> "LogItem", arg |-> log_item, raised |-> NoError ]
  /\ UNCHANGED <<log, files, dirs, agg_input, comm_info, pc>>

ExtendStep ==
  /\ \E new_workload \in { wl } \cup { [ workload |-> << i >> ] : i \in WorkloadItems } :
       /\ Len(wl.workload) + Len(new_workload.workload) <= MaxWorkload
       /\ wl' = extend(wl, new_workload)
       /\ result' = [ op |-> "extend", raised |-> NoError ]
  /\ UNCHANGED <<log, files, dirs, agg_input, comm_info, pc>>

NextAppend == AppendDictStep \/ AppendItemStep \/ ExtendStep

SpecAppend == Init /\ [][NextAppend]_vars

IsDictAppend == result'.op = "append" /\ result'.kind = "dict"

NoGroup(d) == "comm_group" \notin DOMAIN d /\ "comm_type" \in DOMAIN d

AppendedOne ==
  /\ result'.raised = NoError
  /\ Len(wl'.workload) = Len(wl.workload) + 1
  /\ SubSeq(wl'.workload, 1, Len(wl.workload)) = wl.workload
  /\ Last(wl'.workload).comm_group = "all"
  /\ Last(wl'.workload)._elapsed_time = None
  /\ is_workload(Last(wl'.workload))

\* C8 as stated: append of a dict without comm_group fails with an
\* assertion error and leaves the workload unchanged when comm_type is not
\* computation, and when comm_type is computation it succeeds and appends
\* one record, at the end, in the "all" group and without elapsed time.
C8_AsStated ==
  [][ (IsDictAppend /\ NoGroup(result'.arg)) =>
        IF result'.arg["comm_type"] # "computation"
          THEN result'.raised = "AssertionError" /\ wl' = wl
        ELSE AppendedOne
    ]_vars

\* C8, amended: append of a dict without comm_group fails with an assertion
\* error and leaves the workload unchanged when comm_type is not
\* computation; when comm_type is computation and the dict holds
\* comm_group_size and msg_size it succeeds and appends one record, at the
\* end, in the "all" group and without elapsed time; without one of those
\* two keys it fails with a key error and leaves the workload unchanged.
C8_AppendWithoutGroup ==
  [][ (IsDictAppend /\ NoGroup(result'.arg)) =>
        IF result'.arg["comm_type"] # "computation"
          THEN result'.raised = "AssertionError" /\ wl' = wl
        ELSE IF { "comm_group_size", "msg_size" } \subseteq DOMAIN result'.arg
          THEN AppendedOne
        ELSE result'.raised = "KeyError" /\ wl' = wl
    ]_vars

C8_Witness ==
  /\ result.op = "append"
  /\ result.kind = "dict"
  /\ result.raised = NoError
  /\ DOMAIN result.arg = { "comm_type", "comm_group_size", "msg_size", "operation", "src" }
  /\ Len(wl.workload) = 2
  /\ wl.workload[2].comm_group = "all"
  /\ wl.workload[2].stage = "attention"
  /\ is_workload(wl.workload[2])

(***************************************************************************)
(* Workload.dump and Workload.load.                                        *)
(***************************************************************************)
WorkloadFolder == << "r", "e", "s", "u", "l", "t", "s", "/", "m", "o", "c", "k", "e", "d", "_", "w", "o", "r", "k", "l", "o", "a", "d", "/" >>

\* Workload.dump(args, filename): the file system it leaves and whether it
\* raises.  The snapshot is written before the CSV.
workload_dump(self, args, filename, fs, existing) ==
  LET folder_path == Dirname(filename)
      existing1 == IF folder_path # << >> THEN existing \cup MakeDirs(folder_path) ELSE existing
      existing2 == existing1 \cup MakeDirs(Dirname(WorkloadFolder))
      short == IF HasChar(filename, ".") THEN SplitFirst(Basename(filename)) ELSE filename
      base == PathJoin(WorkloadFolder, short)
      pkl_filename == base \o << "_", "w", "o", "r", "k", "l", "o", "a", "d", ".", "p", "k", "l" >>
      csv_filename == base \o << "_", "w", "o", "r", "k", "l", "o", "a", "d", ".", "c", "s", "v" >>
      pickled == WriteFile(fs, pkl_filename, PickleWorkload(self, args))
  IN  IF ~ CanCreate(pkl_filename, existing2)
        THEN [ raised |-> "FileNotFoundError", files |-> fs, dirs |-> existing2,
               csv |-> csv_filename, pkl |-> pkl_filename ]
      ELSE IF self.workload = << >>
        THEN [ raised |-> "IndexError", files |-> WriteFile(pickled, csv_filename, << >>),
               dirs |-> existing2, csv |-> csv_filename, pkl |-> pkl_filename ]
      ELSE [ raised |-> NoError,
             files |-> WriteFile(pickled, csv_filename, CsvOf(self.workload)),
             dirs |-> existing2, csv |-> csv_filename, pkl |-> pkl_filename ]

\* Workload.load(filename)
workload_load(filename, fs) ==
  IF pkl_path(filename) \in DOMAIN fs
    THEN [ raised |-> NoError, ret |-> Some(UnpickleWorkload(fs[pkl_path(filename)])) ]
  ELSE [ raised |-> "FileNotFoundError", ret |-> None ]

WorkloadDumpNames == { << "w" >>, << "d", "/", "w", ".", "c", "s", "v" >>, << "d", "/", "w" >>, << "v", ".", "x", ".", "y" >> }

WorkloadLoadNames ==
  WorkloadDumpNames
    \cup { PathJoin(WorkloadFolder, SplitFirst(Basename(n))) \o << "_", "w", "o", "r", "k", "l", "o", "a", "d", ".", "c", "s", "v" >> : n \in WorkloadDumpNames }
    \cup { PathJoin(WorkloadFolder, SplitFirst(Basename(n))) \o << "_", "w", "o", "r", "k", "l", "o", "a", "d", ".", "p", "k", "l" >> : n \in WorkloadDumpNames }

Configs == { "config_a", "config_b" }

DumpDicts == { Restrict(FullDict("computation"), { "comm_type", "comm_group_size", "msg_size", "src" }) }

AppendForDumpStep ==
  /\ Len(wl.workload) < MaxDumpWorkload
  /\ \/ \E log_item \in DumpDicts :
          /\ wl' = append_dict(wl, log_item).self
          /\ result' = [ op |-> "append", kind |-> "dict", arg |-> log_item, raised |-> NoError ]
     \/ \E log_item \in WorkloadItems :
          /\ wl' = append_item(wl, log_item)
          /\ result' = [ op |-> "append", kind |-> "LogItem", arg |-> log_item, raised |-> NoError ]
  /\ UNCHANGED <<log, files, dirs, agg_input, comm_info, pc>>

WorkloadDumpStep ==
  /\ \E filename \in WorkloadDumpNames, args \in Configs :
       LET r == workload_dump(wl, args, filename, files, dirs)
       IN  /\ files' = r.files
           /\ dirs' = r.dirs
           /\ result' = [ op |-> "dump", args |-> args, raised |-> r.raised,
                          csv |-> r.csv, pkl |-> r.pkl ]
  /\ UNCHANGED <<log, wl, agg_input, comm_info, pc>>

WorkloadLoadStep ==
  /\ \E filename \in WorkloadLoadNames :
       LET r == workload_load(filename, files)
       IN  result' = [ op |-> "load", arg |-> filename, raised |-> r.raised, ret |-> r.ret ]
  /\ UNCHANGED <<log, wl, files, dirs, agg_input, comm_info, pc>>

NextWorkloadDump == AppendForDumpStep \/ WorkloadDumpStep \/ WorkloadLoadStep

SpecWorkloadDump == Init /\ [][NextWorkloadDump]_vars

\* C9: after Workload.dump(cfg, p) of a non-empty Workload succeeds,
\* Workload.load of the path of the CSV or of the snapshot that dump wrote
\* returns the pair of a Workload with the same records, in the same order,
\* and cfg.
C9_WorkloadRoundTrip ==
  [][ DumpThenLoad =>
        /\ wl.workload # << >>
        /\ result'.raised = NoError
        /\ result'.ret[1][1].workload = wl.workload
        /\ result'.ret[1][2] = result.args
    ]_vars

C9_Witness ==
  /\ result.op = "load"
  /\ result.raised = NoError
  /\ Last(result.arg) = "v"
  /\ Len(wl.workload) = 2
  /\ wl.workload[1] # wl.workload[2]
  /\ result.ret[1][1] = wl
  /\ result.ret[1][2] = "config_b"
  /\ Cardinality(DOMAIN files) = 4

====
